---- MODULE Spec2Model ----
(***************************************************************************)
(* Model of src/main.py: the Feishu price updater.  One run of main()      *)
(* authenticates, reads the asset records, extracts a symbol per record    *)
(* (get_symbol_string), downloads the quotes in one batch with a bounded   *)
(* retry (fetch_yfinance_price), builds the update payload and posts it    *)
(* (FeishuClient.update_price_records).                                    *)
(*                                                                         *)
(* Strings are sequences of one-character strings, so that str.strip() and *)
(* str(number) are computed and not assumed.  Prices are integers counting *)
(* units of 10^-6, so that round(price, 5) is a real operation.            *)
(***************************************************************************)
EXTENDS Integers, Sequences, FiniteSets, TLC

\* ---------------------------------------------------------------- bounds
MaxLen == 3          \* longest string field value that is enumerated
MaxNum == 11         \* largest numeric field value that is enumerated
MaxRecords == 2      \* most records one read returns
MaxSymbols == 2      \* longest symbol list handed to fetch_yfinance_price directly

\* ------------------------------------------------------ program constants
MaxAttempts == 3        \* for attempt in range(3)
LastRetryAttempt == 2   \* ... and attempt < 2

\* ------------------------------------------------------------ value shapes
Whitespace == {" "}
Alphabet == {"A", " ", "7"}

RECURSIVE StringsUpTo(_)
StringsUpTo(n) ==
    IF n = 0 THEN {<<>>}
    ELSE LET shorter == StringsUpTo(n - 1)
         IN  shorter \cup {Append(s, c) : s \in {t \in shorter : Len(t) = n - 1}, c \in Alphabet}

\* A raw field value as the record store returns it: kind tells the Python
\* shape, s the text it carries (if any), n the number it carries (if any).
FV(kind, s, n) == [kind |-> kind, s |-> s, n |-> n]

FieldValues ==
       {FV("null", <<>>, 0), FV("list_empty", <<>>, 0), FV("list_notext", <<>>, 0),
        FV("list_other", <<>>, 0), FV("list_text_nonstr", <<>>, 0),
        FV("other", <<>>, 0), FV("other_empty", <<>>, 0)}
  \cup {FV("str", s, 0) : s \in StringsUpTo(MaxLen)}
  \cup {FV("list_text", s, 0) : s \in StringsUpTo(MaxLen)}
  \cup {FV(k, <<>>, n) : k \in {"int", "float"}, n \in (0 .. MaxNum) \cup {700}}

\* Results of get_symbol_string: a string, None, or an exception raised.
None == [tag |-> "None", s |-> <<>>]
Raised == [tag |-> "raise", s |-> <<>>]
Str(s) == [tag |-> "str", s |-> s]

\* ------------------------------------------------------- str.strip(), str()
RECURSIVE LStrip(_)
LStrip(s) == IF s # <<>> /\ Head(s) \in Whitespace THEN LStrip(Tail(s)) ELSE s

RECURSIVE RStrip(_)
RStrip(s) ==
    IF s # <<>> /\ s[Len(s)] \in Whitespace THEN RStrip(SubSeq(s, 1, Len(s) - 1)) ELSE s

strip(s) == RStrip(LStrip(s))

DigitChar(d) == <<"0", "1", "2", "3", "4", "5", "6", "7", "8", "9">>[d + 1]

RECURSIVE NatStr(_)
NatStr(n) == IF n < 10 THEN <<DigitChar(n)>> ELSE Append(NatStr(n \div 10), DigitChar(n % 10))

\* str(n) of an int, and str(x) of a float x with the whole value n
IntStr(n) == IF n < 0 THEN <<"-">> \o NatStr(-n) ELSE NatStr(n)
FloatStr(n) == IntStr(n) \o <<".", "0">>

\* Python truth value of a field value (`if not field_value`)
Truthy(fv) ==
    CASE fv.kind \in {"null", "list_empty", "other_empty"} -> FALSE
      [] fv.kind = "str" -> fv.s # <<>>
      [] fv.kind \in {"int", "float"} -> fv.n # 0
      [] OTHER -> TRUE

get_symbol_string(fv) ==
    IF ~Truthy(fv) THEN None
    ELSE IF fv.kind = "str" THEN Str(strip(fv.s))
    ELSE IF fv.kind = "list_text" THEN Str(strip(fv.s))
    ELSE IF fv.kind = "list_text_nonstr" THEN Raised
    ELSE IF fv.kind = "int" THEN Str(IntStr(fv.n))
    ELSE IF fv.kind = "float" THEN Str(FloatStr(fv.n))
    ELSE None

\* ------------------------------------------------------------------ state
VARIABLES
    secrets,           \* <<APP_ID, APP_SECRET, BASE_TOKEN>> as read from the environment
    mode,              \* "main": a run of main(); "fetch": fetch_yfinance_price called alone;
                       \* "extract": get_symbol_string called alone
    pc,                \* where the run is
    assets_records,    \* the records read
    symbols_to_fetch,  \* the argument of fetch_yfinance_price
    unique_symbols,    \* list(set(symbols)), as a set
    attempt,           \* loop variable of the retry loop
    nattempts,         \* yf.download calls made
    ndelays,           \* time.sleep(2) calls made
    errs,              \* the errors the download attempts raised, in order
    data,              \* the batch response, or None
    todo,              \* symbols the resolution loop has not visited yet
    prices,            \* the dictionary fetch_yfinance_price is filling
    price_data,        \* what fetch_yfinance_price returned
    idx,               \* position of the payload loop in assets_records
    feishu_payload,    \* the update records built so far
    updated_count,
    phases,            \* pipeline steps entered, in order
    netlog,            \* network calls made, in order
    replies,           \* how each of those calls ended, in the same order
    unique_list,       \* list(set(symbols)), as the list handed to yf.download
    requested,         \* the symbol list of each yf.download call, in order
    writes,            \* the payloads posted to the record store, in order
    outcome,           \* how the run ended
    exit_code,         \* process exit status, -1 while running
    fv,                \* argument of a lone get_symbol_string call
    res                \* its result

vars == <<secrets, mode, pc, assets_records, symbols_to_fetch, unique_symbols, attempt,
          nattempts, ndelays, errs, data, todo, prices, price_data, idx, feishu_payload,
          updated_count, phases, netlog, replies, writes, outcome, exit_code, fv, res,
          replies, unique_list, requested>>

runVars == <<secrets, mode>>
readVars == <<assets_records>>
fetchVars == <<unique_symbols, attempt, nattempts, ndelays, errs, data, todo, prices,
               unique_list, requested>>
payloadVars == <<idx, feishu_payload, updated_count>>
endVars == <<outcome, exit_code>>
loneVars == <<fv, res>>

EmptyMap == [x \in {} |-> 0]
Unset == [tag |-> "unset", s |-> <<>>]

\* Values every call starts from, whatever is being called.
Blank ==
    /\ assets_records = <<>> /\ unique_symbols = {}
    /\ attempt = 0 /\ nattempts = 0 /\ ndelays = 0 /\ errs = <<>>
    /\ data = [st |-> "unset", cells |-> EmptyMap]
    /\ todo = {} /\ prices = EmptyMap /\ price_data = EmptyMap
    /\ idx = 1 /\ feishu_payload = <<>> /\ updated_count = 0
    /\ phases = <<>> /\ netlog = <<>> /\ writes = <<>>
    /\ replies = <<>> /\ unique_list = <<>> /\ requested = <<>>
    /\ outcome = "running" /\ exit_code = -1
    /\ res = Unset

\* --------------------------------------------------- get_symbol_string alone
InitExtract ==
    /\ mode = "extract" /\ pc = "CALL"
    /\ secrets = <<"set", "set", "set">>
    /\ fv \in FieldValues
    /\ symbols_to_fetch = <<>>
    /\ Blank

CallExtract ==
    /\ mode = "extract" /\ pc = "CALL"
    /\ res' = get_symbol_string(fv)
    /\ pc' = "RETURNED"
    /\ UNCHANGED <<runVars, readVars, symbols_to_fetch, fetchVars, price_data, payloadVars,
                   phases, netlog, replies, writes, endVars, fv>>

NextExtract == CallExtract

SpecExtract == InitExtract /\ [][NextExtract]_vars

\* ------------------------------------------------------ fetch_yfinance_price
\* One cell of the provider's response: the last Close of one symbol.
\* "missing": the column or row is not there, so reading it raises.
Cell(k, v) == [k |-> k, v |-> v]
PNone == Cell("None", 0)
Cells == {Cell("num", 1234), Cell("num", 410500000), Cell("nan", 0),
          Cell("posinf", 0), Cell("neginf", 0), Cell("missing", 0)}

\* round(x, 5) of a price held in units of 10^-6: to the nearest multiple of
\* 10, ties to the even one.
round5(v) ==
    LET step == 10
        q == v \div step
        r == v % step
    IN  IF 2 * r < step THEN q * step
        ELSE IF 2 * r > step THEN (q + 1) * step
        ELSE IF q % 2 = 0 THEN q * step ELSE (q + 1) * step

\* pd.notna(price): only NaN (and None/NaT) count as missing; an infinity does not.
notna(cell) == cell.k \in {"num", "posinf", "neginf"}

\* Body of the per-symbol try block: the value stored for one symbol.  The
\* cell is the last Close of that symbol, read from the only column when one
\* symbol was requested and from the symbol's own column otherwise.
ResolvePrice(cell) ==
    IF cell.k = "missing" THEN PNone                 \* except Exception
    ELSE IF notna(cell)
         THEN IF cell.k = "num" THEN Cell("num", round5(cell.v))
              ELSE cell                              \* round(float("inf"), 5) is inf
         ELSE PNone

\* A loop that skips a symbol whose resolution raised instead of storing None.
PricesAfter_SkipFailed(p, s, cell) ==
    IF cell.k = "missing" THEN p ELSE (s :> ResolvePrice(cell)) @@ p

\* prices[symbol] = ... : the dictionary after one iteration of the loop
PricesAfter(p, s, cell) == (s :> ResolvePrice(cell)) @@ p

\* A retry on every error, whatever its message.
ShouldRetry_AnyError(err, a) == a < LastRetryAttempt

\* A retry on every lock error, the last attempt included.
ShouldRetry_NoLastAttempt(err, a) == err = "locked"

\* `'database is locked' in str(e) and attempt < 2`
ShouldRetry(err, a) == err = "locked" /\ a < LastRetryAttempt

DownloadErrors == {"locked", "other"}

\* Where fetch_yfinance_price returns to.
ReturnSite == IF mode = "main" THEN "RECONCILE" ELSE "RETURNED"

Range(seq) == {seq[i] : i \in 1 .. Len(seq)}

\* A request list that keeps the duplicates of the input.
UniqueList_KeepDuplicates(symbols) == symbols

\* list(set(symbols)): every distinct symbol once.  The order a set gives is
\* not fixed; the list is kept in order of first occurrence and the resolution
\* loop below visits the symbols in any order.
RECURSIVE UniqueList(_)
UniqueList(symbols) ==
    IF symbols = <<>> THEN <<>>
    ELSE LET rest == UniqueList(SubSeq(symbols, 1, Len(symbols) - 1))
             last == symbols[Len(symbols)]
         IN  IF last \in Range(rest) THEN rest ELSE Append(rest, last)

FetchEntry ==
    /\ pc = "FETCH"
    /\ phases' = IF mode = "main" THEN Append(phases, "FETCH") ELSE phases
    /\ IF symbols_to_fetch = <<>>
       THEN /\ price_data' = EmptyMap
            /\ pc' = ReturnSite
            /\ UNCHANGED <<unique_symbols, unique_list>>
       ELSE /\ unique_list' = UniqueList(symbols_to_fetch)
            /\ unique_symbols' = Range(UniqueList(symbols_to_fetch))
            /\ pc' = "DOWNLOAD"
            /\ UNCHANGED price_data
    /\ UNCHANGED <<runVars, readVars, symbols_to_fetch, attempt, nattempts, ndelays, errs,
                   data, todo, prices, requested, payloadVars, netlog, replies, writes,
                   endVars, loneVars>>

\* One pass of the retry loop in which yf.download returns.
DownloadOk ==
    /\ pc = "DOWNLOAD" /\ attempt < MaxAttempts
    /\ \E cells \in [unique_symbols -> Cells] :
          data' = [st |-> "frame", cells |-> cells]
    /\ nattempts' = nattempts + 1
    /\ netlog' = Append(netlog, "download")
    /\ replies' = Append(replies, "ok")
    /\ requested' = Append(requested, unique_list)
    /\ todo' = unique_symbols
    /\ pc' = "RESOLVE"
    /\ UNCHANGED <<runVars, readVars, symbols_to_fetch, unique_symbols, unique_list, attempt,
                   ndelays, errs, prices, price_data, payloadVars, phases, writes, endVars,
                   loneVars>>

\* One pass of the retry loop in which yf.download raises err.
DownloadFail(err) ==
    /\ pc = "DOWNLOAD" /\ attempt < MaxAttempts
    /\ nattempts' = nattempts + 1
    /\ netlog' = Append(netlog, "download")
    /\ replies' = Append(replies, err)
    /\ requested' = Append(requested, unique_list)
    /\ errs' = Append(errs, err)
    /\ IF ShouldRetry(err, attempt)
       THEN /\ ndelays' = ndelays + 1
            /\ attempt' = attempt + 1
            /\ UNCHANGED <<data, price_data, pc>>
       ELSE /\ data' = [st |-> "None", cells |-> EmptyMap]
            /\ price_data' = EmptyMap
            /\ pc' = ReturnSite
            /\ UNCHANGED <<ndelays, attempt>>
    /\ UNCHANGED <<runVars, readVars, symbols_to_fetch, unique_symbols, unique_list, todo,
                   prices, payloadVars, phases, writes, endVars, loneVars>>

\* One pass of `for symbol in unique_symbols`; a set has no fixed order.
Resolve(s) ==
    /\ pc = "RESOLVE" /\ s \in todo
    /\ prices' = PricesAfter(prices, s, data.cells[s])
    /\ todo' = todo \ {s}
    /\ UNCHANGED <<runVars, pc, readVars, symbols_to_fetch, unique_symbols, unique_list,
                   requested, attempt, nattempts, ndelays, errs, data, price_data, payloadVars,
                   phases, netlog, replies, writes, endVars, loneVars>>

FetchReturn ==
    /\ pc = "RESOLVE" /\ todo = {}
    /\ price_data' = prices
    /\ pc' = ReturnSite
    /\ UNCHANGED <<runVars, readVars, symbols_to_fetch, fetchVars, payloadVars, phases,
                   netlog, replies, writes, endVars, loneVars>>

SymbolPool == {<<"A">>, <<"M">>, <<"7">>}

SymbolLists == UNION {[1 .. n -> SymbolPool] : n \in 0 .. MaxSymbols}

InitFetch ==
    /\ mode = "fetch" /\ pc = "FETCH"
    /\ secrets = <<"set", "set", "set">>
    /\ symbols_to_fetch \in SymbolLists
    /\ fv = FV("null", <<>>, 0)
    /\ Blank

NextFetch ==
    \/ FetchEntry
    \/ DownloadOk
    \/ \E err \in DownloadErrors : DownloadFail(err)
    \/ \E s \in unique_symbols : Resolve(s)
    \/ FetchReturn

SpecFetch == InitFetch /\ [][NextFetch]_vars

\* ---------------------------------------------------------------------- main
SecretValues == {"unset", "empty", "set"}

\* Field values the records of a run carry in their Code field.
RecordFields ==
    {FV("null", <<>>, 0), FV("str", <<" ">>, 0), FV("str", <<"A">>, 0),
     FV("str", <<" ", "A">>, 0), FV("str", <<"M">>, 0),
     FV("list_text_nonstr", <<>>, 0), FV("int", <<>>, 0), FV("int", <<>>, 7)}

\* A read returns records with distinct, store-assigned ids.
RecordSeqs ==
    UNION {{[i \in 1 .. n |-> [record_id |-> i, code |-> f[i]]] : f \in [1 .. n -> RecordFields]}
           : n \in 0 .. MaxRecords}

\* A test that lets every string through, the empty one included.
SymbolTruthy_AnyString(r) == r.tag = "str"

\* `if symbol:` on a result of get_symbol_string
SymbolTruthy(r) == r.tag = "str" /\ r.s # <<>>

\* The first loop of main: the symbols appended, in record order.
RECURSIVE SymbolsOf(_)
SymbolsOf(recs) ==
    IF recs = <<>> THEN <<>>
    ELSE LET r == get_symbol_string(Head(recs).code)
         IN  (IF SymbolTruthy(r) THEN <<r.s>> ELSE <<>>) \o SymbolsOf(Tail(recs))

ExtractRaises(recs) == \E i \in 1 .. Len(recs) : get_symbol_string(recs[i].code) = Raised

\* `symbol and symbol in price_data and price_data[symbol] is not None`
Qualifies(r, pd) == SymbolTruthy(r) /\ r.s \in DOMAIN pd /\ pd[r.s] # PNone

\* An update record that also writes the symbol field back.
UpdateRecord_WithCode(id, new_price) ==
    [record_id |-> id, fields |-> [fldbbaX8bo |-> new_price, Code |-> new_price]]

\* update_record: the record id and the one field written, keyed by FIELD_ID_MAP["Price"]
UpdateRecord(id, new_price) == [record_id |-> id, fields |-> [fldbbaX8bo |-> new_price]]

\* A payload built by inserting at the front.
AppendIntent_Prepend(payload, rec) == <<rec>> \o payload

\* feishu_payload.append(update_record)
AppendIntent(payload, rec) == Append(payload, rec)

\* A main without the early return on an empty payload.
AfterReconcile_AlwaysWrite(payload) == "WRITE"

\* `if not feishu_payload: return`, else the write
AfterReconcile(payload) == IF payload = <<>> THEN "DONE" ELSE "WRITE"

\* `if not symbols_to_fetch: return`, else the fetch
AfterExtract(symbols) == IF symbols = <<>> THEN "DONE" ELSE "FETCH"

Init ==
    /\ mode = "main" /\ pc = "INIT"
    /\ secrets \in [1 .. 3 -> SecretValues]
    /\ symbols_to_fetch = <<>>
    /\ fv = FV("null", <<>>, 0)
    /\ Blank

\* `except Exception as e: print(...)`: main returns normally
Caught ==
    /\ pc' = "FAILED"
    /\ outcome' = "exception"
    /\ exit_code' = 0

\* A test that only asks whether each variable is defined.
ConfigComplete_DefinedOnly(s) == \A i \in 1 .. 3 : s[i] # "unset"

\* all([APP_ID, APP_SECRET, BASE_TOKEN]): None and the empty string are false
ConfigComplete(s) == \A i \in 1 .. 3 : s[i] = "set"

\* `if not all([APP_ID, APP_SECRET, BASE_TOKEN]): print(...); return`
CheckConfig ==
    /\ pc = "INIT"
    /\ IF ConfigComplete(secrets)
       THEN pc' = "AUTH" /\ UNCHANGED endVars
       ELSE pc' = "FAILED" /\ outcome' = "config_missing" /\ exit_code' = 0
    /\ UNCHANGED <<runVars, readVars, symbols_to_fetch, fetchVars, price_data, payloadVars,
                   phases, netlog, replies, writes, loneVars>>

AuthResults == {"ok", "transport", "http_status", "code"}

\* A token request that forgets the `code` of the answer.
AuthRaises_StatusOnly(result) == result \in {"transport", "http_status"}

\* requests.post raises, raise_for_status() raises, or data.get("code") != 0
AuthRaises(result) == result # "ok"

\* FeishuClient.__init__ and _get_app_access_token
Auth(result) ==
    /\ pc = "AUTH"
    /\ netlog' = Append(netlog, "auth")
    /\ replies' = Append(replies, result)
    /\ IF AuthRaises(result)
       THEN Caught
       ELSE pc' = "READ" /\ UNCHANGED endVars
    /\ UNCHANGED <<runVars, readVars, symbols_to_fetch, fetchVars, price_data, payloadVars,
                   phases, writes, loneVars>>

\* get_assets_records succeeds, then `if not assets_records: return`
ReadOk(recs) ==
    /\ pc = "READ"
    /\ netlog' = Append(netlog, "read")
    /\ replies' = Append(replies, "ok")
    /\ assets_records' = recs
    /\ IF recs = <<>>
       THEN pc' = "DONE" /\ outcome' = "no_records" /\ exit_code' = 0
       ELSE pc' = "EXTRACT" /\ UNCHANGED endVars
    /\ UNCHANGED <<runVars, symbols_to_fetch, fetchVars, price_data, payloadVars, phases,
                   writes, loneVars>>

ReadFailures == {"transport", "http_status", "code"}

\* get_assets_records raises
ReadFail(result) ==
    /\ pc = "READ"
    /\ netlog' = Append(netlog, "read")
    /\ replies' = Append(replies, result)
    /\ Caught
    /\ UNCHANGED <<runVars, readVars, symbols_to_fetch, fetchVars, price_data, payloadVars,
                   phases, writes, loneVars>>

\* The first loop over the records, then `if not symbols_to_fetch: return`
Extract ==
    /\ pc = "EXTRACT"
    /\ phases' = Append(phases, "EXTRACT")
    /\ IF ExtractRaises(assets_records)
       THEN Caught /\ UNCHANGED symbols_to_fetch
       ELSE /\ symbols_to_fetch' = SymbolsOf(assets_records)
            /\ pc' = AfterExtract(SymbolsOf(assets_records))
            /\ IF SymbolsOf(assets_records) = <<>>
               THEN outcome' = "no_symbols" /\ exit_code' = 0
               ELSE UNCHANGED endVars
    /\ UNCHANGED <<runVars, readVars, fetchVars, price_data, payloadVars, netlog, replies, writes,
                   loneVars>>

\* One pass of the second loop over the records.
Reconcile ==
    /\ pc = "RECONCILE" /\ idx <= Len(assets_records)
    /\ phases' = IF idx = 1 THEN Append(phases, "RECONCILE") ELSE phases
    /\ LET record == assets_records[idx]
           symbol == get_symbol_string(record.code)
       IN  IF symbol = Raised
           THEN Caught /\ UNCHANGED payloadVars
           ELSE /\ idx' = idx + 1
                /\ UNCHANGED <<pc, endVars>>
                /\ IF Qualifies(symbol, price_data)
                   THEN /\ feishu_payload' =
                              AppendIntent(feishu_payload,
                                           UpdateRecord(record.record_id, price_data[symbol.s]))
                        /\ updated_count' = updated_count + 1
                   ELSE UNCHANGED <<feishu_payload, updated_count>>
    /\ UNCHANGED <<runVars, readVars, symbols_to_fetch, fetchVars, price_data, netlog, replies, writes,
                   loneVars>>

\* After the loop: `if not feishu_payload: return`
ReconcileEnd ==
    /\ pc = "RECONCILE" /\ idx > Len(assets_records)
    /\ pc' = AfterReconcile(feishu_payload)
    /\ IF AfterReconcile(feishu_payload) = "DONE"
       THEN outcome' = "no_prices" /\ exit_code' = 0
       ELSE UNCHANGED endVars
    /\ UNCHANGED <<runVars, readVars, symbols_to_fetch, fetchVars, price_data, payloadVars,
                   phases, netlog, replies, writes, loneVars>>

\* "http_status": status other than 200 with a JSON body (line 102 raises);
\* "http_nojson": status other than 200 without one (raise_for_status() or the
\* second response.json() raises); "code": status 200 with a non-zero code.
WriteResults == {"ok", "http_status", "http_nojson", "code"}

\* A write that checks the HTTP status only.
WriteRaises_StatusOnly(result) == result \in {"http_status", "http_nojson"}

\* update_price_records raises on every answer but status 200 with code 0
WriteRaises(result) == result # "ok"

\* update_price_records: one POST of the whole payload; any failure raises
Write(result) ==
    /\ pc = "WRITE"
    /\ phases' = Append(phases, "WRITE")
    /\ netlog' = Append(netlog, "write")
    /\ replies' = Append(replies, result)
    /\ writes' = Append(writes, feishu_payload)
    /\ IF WriteRaises(result)
       THEN Caught
       ELSE pc' = "DONE" /\ outcome' = "updated" /\ exit_code' = 0
    /\ UNCHANGED <<runVars, readVars, symbols_to_fetch, fetchVars, price_data, payloadVars,
                   loneVars>>

Next ==
    \/ CheckConfig
    \/ \E result \in AuthResults : Auth(result)
    \/ \E recs \in RecordSeqs : ReadOk(recs)
    \/ \E result \in ReadFailures : ReadFail(result)
    \/ Extract
    \/ FetchEntry
    \/ DownloadOk
    \/ \E err \in DownloadErrors : DownloadFail(err)
    \/ \E s \in unique_symbols : Resolve(s)
    \/ FetchReturn
    \/ Reconcile
    \/ ReconcileEnd
    \/ \E result \in WriteResults : Write(result)

Spec == Init /\ [][Next]_vars

\* A run is one thread of control and every external call returns or fails:
\* whenever a step can be taken, one is.
SpecLive == Init /\ [][Next]_vars /\ WF_vars(Next)

\* ==================================================================== claims
Returned == mode = "fetch" /\ pc = "RETURNED"

Pipeline == <<"EXTRACT", "FETCH", "RECONCILE", "WRITE">>

IsPrefix(s, t) == Len(s) <= Len(t) /\ s = SubSeq(t, 1, Len(s))

\* The payload loop of main has visited every record.
ReconcileFinished ==
    /\ mode = "main"
    /\ "RECONCILE" \in Range(phases)
    /\ idx > Len(assets_records)

SymbolAt(i) == get_symbol_string(assets_records[i].code)

HasIntent(i) ==
    \E j \in 1 .. Len(feishu_payload) :
        feishu_payload[j].record_id = assets_records[i].record_id

\* C1 (as claimed): once the payload is built, a record has an update intent
\* if and only if its extracted symbol is non-empty and the mapping returned by
\* fetch_yfinance_price holds a finite price, not None, for that symbol.
C1_IntentIffFiniteQuote ==
    ReconcileFinished =>
        \A i \in 1 .. Len(assets_records) :
            HasIntent(i) <=>
                /\ SymbolTruthy(SymbolAt(i))
                /\ SymbolAt(i).s \in DOMAIN price_data
                /\ price_data[SymbolAt(i).s].k = "num"

\* C2 (as claimed): a failed attempt of any kind is retried while fewer than 3
\* attempts were made, so the fetcher gives up only after 3 failed attempts.
C2_GivesUpOnlyAfterThree ==
    (Returned /\ data.st = "None") => nattempts = MaxAttempts

\* C2 (amended): only a 'database is locked' error is retried, after one delay
\* each, and only on the first two attempts; any other error, or the third
\* failure, makes the fetcher give up at once with the empty mapping. A provider
\* that fails N < 3 times with the lock error and then succeeds makes fetch
\* return the prices resolved from the successful response.
C2_RetriesLockErrorsOnly ==
    mode = "fetch" =>
        /\ \A i \in 1 .. Len(errs) - 1 : errs[i] = "locked"
        /\ pc = "DOWNLOAD" =>
              /\ \A i \in 1 .. Len(errs) : errs[i] = "locked"
              /\ ndelays = Len(errs) /\ nattempts = Len(errs) /\ attempt = Len(errs)
              /\ Len(errs) < MaxAttempts
        /\ (Returned /\ data.st = "None") =>
              /\ nattempts = Len(errs) /\ ndelays = Len(errs) - 1
              /\ errs[Len(errs)] = "other" \/ Len(errs) = MaxAttempts
              /\ DOMAIN price_data = {}
        /\ (Returned /\ data.st = "frame") =>
              /\ nattempts = Len(errs) + 1 /\ ndelays = Len(errs)
              /\ Len(errs) < MaxAttempts
              /\ \A i \in 1 .. Len(errs) : errs[i] = "locked"
              /\ DOMAIN price_data = unique_symbols
              /\ \A s \in unique_symbols :
                    /\ data.cells[s].k = "num" =>
                          price_data[s] = Cell("num", round5(data.cells[s].v))
                    /\ data.cells[s].k \in {"nan", "missing"} => price_data[s] = PNone

\* Two lock errors, then a response with a price: the price is returned.
C2_Witness ==
    /\ Returned /\ data.st = "frame"
    /\ errs = <<"locked", "locked">>
    /\ \E s \in DOMAIN price_data : price_data[s].k = "num"

\* C3: one call makes at most 3 download attempts and at most 2 delays, never a
\* delay after its last attempt, and when no attempt succeeded it returns the
\* empty mapping instead of raising.
C3_BoundedAttemptsEmptyOnFailure ==
    mode = "fetch" =>
        /\ nattempts <= MaxAttempts
        /\ ndelays <= MaxAttempts - 1
        /\ attempt < MaxAttempts
        /\ pc \in {"FETCH", "DOWNLOAD", "RESOLVE", "RETURNED"}
        /\ Returned => (nattempts = 0 /\ ndelays = 0) \/ ndelays < nattempts
        /\ (Returned /\ data.st # "frame") => DOMAIN price_data = {}
        /\ (pc # "FETCH" /\ pc # "DOWNLOAD" /\ data.st # "frame") => Returned

\* Three failed attempts, two delays, the empty mapping returned.
C3_Witness ==
    /\ Returned /\ data.st = "None"
    /\ nattempts = MaxAttempts /\ ndelays = MaxAttempts - 1
    /\ DOMAIN price_data = {}

\* C4 (as claimed): the returned mapping has only input symbols as keys and
\* every value is None or a finite price rounded to 5 fractional digits; a NaN
\* or infinite provider price is never stored.
C4_ValuesFiniteOrNone ==
    Returned =>
        /\ DOMAIN price_data \subseteq Range(symbols_to_fetch)
        /\ \A s \in DOMAIN price_data :
              \/ price_data[s] = PNone
              \/ price_data[s].k = "num" /\ price_data[s].v % 10 = 0

\* C5: once a batch response was obtained, every distinct requested symbol gets
\* an entry; a symbol whose data is missing or whose resolution raises gets None
\* and the other symbols keep the value their own data gives.
C5_EntryForEverySymbol ==
    /\ (mode = "fetch" /\ pc = "RESOLVE") => DOMAIN prices = unique_symbols \ todo
    /\ (Returned /\ data.st = "frame") =>
          /\ DOMAIN price_data = Range(symbols_to_fetch)
          /\ \A s \in Range(symbols_to_fetch) :
                /\ data.cells[s].k \in {"missing", "nan"} => price_data[s] = PNone
                /\ data.cells[s].k = "num" =>
                      price_data[s] = Cell("num", round5(data.cells[s].v))

\* One symbol's resolution raised, another symbol's price was returned.
C5_Witness ==
    /\ Returned /\ data.st = "frame"
    /\ \E s, u \in DOMAIN price_data :
          /\ data.cells[s].k = "missing" /\ price_data[s] = PNone
          /\ data.cells[u].k = "num" /\ price_data[u].k = "num"

\* C6 (as claimed): get_symbol_string never raises, whatever the field value.
C6_NeverRaises ==
    (mode = "extract" /\ pc = "RETURNED") => res # Raised

\* C7 (as claimed): a plain string yields the trimmed string, and None when
\* nothing is left after trimming; the empty string is never returned.
C7_TrimmedOrNone ==
    (mode = "extract" /\ pc = "RETURNED" /\ fv.kind = "str") =>
        /\ res # Str(<<>>)
        /\ res = IF strip(fv.s) = <<>> THEN None ELSE Str(strip(fv.s))

\* C8 (as claimed): every number, zero included, yields its decimal string; no
\* number yields None.
C8_NumberToString ==
    (mode = "extract" /\ pc = "RETURNED" /\ fv.kind \in {"int", "float"}) =>
        /\ res # None
        /\ res = Str(IF fv.kind = "int" THEN IntStr(fv.n) ELSE FloatStr(fv.n))

\* C9: the update intents follow the order of the records, every qualifying
\* record has its own intent carrying the quote of its symbol, and there are as
\* many intents as qualifying records, however many symbols they share.
C9_IntentsInRecordOrder ==
    ReconcileFinished =>
        /\ Len(feishu_payload) =
              Cardinality({i \in 1 .. Len(assets_records) : Qualifies(SymbolAt(i), price_data)})
        /\ updated_count = Len(feishu_payload)
        /\ \A j, k \in 1 .. Len(feishu_payload) :
              j < k => feishu_payload[j].record_id < feishu_payload[k].record_id
        /\ \A j \in 1 .. Len(feishu_payload) :
              \E i \in 1 .. Len(assets_records) :
                 /\ assets_records[i].record_id = feishu_payload[j].record_id
                 /\ Qualifies(SymbolAt(i), price_data)
                 /\ DOMAIN feishu_payload[j].fields = {"fldbbaX8bo"}
                 /\ feishu_payload[j].fields.fldbbaX8bo = price_data[SymbolAt(i).s]

\* Two records share one symbol and each has its own intent with the one price.
C9_Witness ==
    /\ ReconcileFinished
    /\ Len(feishu_payload) = 2
    /\ Cardinality(unique_symbols) = 1
    /\ feishu_payload[1].record_id # feishu_payload[2].record_id
    /\ feishu_payload[1].fields = feishu_payload[2].fields

\* C10 (as claimed): a run that got its records passes through EXTRACT, FETCH,
\* RECONCILE and WRITE before DONE, whatever extraction and fetch yield.
C10_NoShortCircuit ==
    (mode = "main" /\ pc = "DONE" /\ assets_records # <<>>) => phases = Pipeline

\* C10 (amended): the steps are entered only in the order EXTRACT, FETCH,
\* RECONCILE, WRITE and none twice, but the run returns early: after EXTRACT
\* when no symbol was extracted (no download), after RECONCILE when the payload
\* is empty (fetch gave up or nothing usable), in both cases as a no-op without
\* any write call and without an error; only a non-empty payload reaches WRITE.
C10_EarlyReturnsAreNoOps ==
    mode = "main" =>
        /\ IsPrefix(phases, Pipeline)
        /\ pc = "DONE" =>
              /\ exit_code = 0
              /\ outcome \in {"no_records", "no_symbols", "no_prices", "updated"}
              /\ outcome = "no_records" <=> assets_records = <<>>
              /\ outcome = "no_records" => phases = <<>>
              /\ outcome = "no_symbols" <=>
                    (assets_records # <<>> /\ SymbolsOf(assets_records) = <<>>)
              /\ outcome = "no_symbols" => phases = <<"EXTRACT">> /\ nattempts = 0
              /\ outcome = "no_prices" =>
                    /\ phases = <<"EXTRACT", "FETCH", "RECONCILE">>
                    /\ feishu_payload = <<>> /\ updated_count = 0
              /\ outcome = "updated" =>
                    /\ phases = Pipeline
                    /\ feishu_payload # <<>> /\ writes = <<feishu_payload>>
              /\ outcome # "updated" => writes = <<>> /\ "write" \notin Range(netlog)
        /\ (pc \in {"DONE", "FAILED"} /\ data.st = "None") =>
              pc = "DONE" /\ outcome = "no_prices"

\* The fetch used up its three attempts and the run ended as a no-op.
C10_Witness ==
    /\ mode = "main" /\ pc = "DONE"
    /\ data.st = "None" /\ nattempts = MaxAttempts
    /\ outcome = "no_prices" /\ writes = <<>>

Terminal == pc \in {"DONE", "FAILED"}

\* C11: when one of the three secrets is absent or empty, the run goes from
\* INIT to the failed end without any network call: no authentication, no
\* record read, no quote download, no record write.
C11_MissingSecretNoNetwork ==
    (mode = "main" /\ \E i \in 1 .. 3 : secrets[i] \in {"unset", "empty"}) =>
        /\ pc \in {"INIT", "FAILED"}
        /\ pc = "FAILED" => outcome = "config_missing"
        /\ netlog = <<>> /\ writes = <<>> /\ requested = <<>> /\ nattempts = 0
        /\ assets_records = <<>>

\* An empty (not absent) secret ended the run before any call.
C11_Witness ==
    /\ mode = "main" /\ pc = "FAILED" /\ outcome = "config_missing"
    /\ \E i \in 1 .. 3 : secrets[i] = "empty"
    /\ \A i \in 1 .. 3 : secrets[i] # "unset"
    /\ netlog = <<>>

\* C12: a failed credential exchange (transport error, HTTP status, non-zero
\* code) aborts the run with no record read, no download and no write; a
\* failed record listing after a good authentication aborts it with no
\* download and no write.
C12_AuthOrReadFailureAborts ==
    mode = "main" =>
        /\ (netlog # <<>> /\ replies[1] # "ok") =>
              /\ netlog = <<"auth">>
              /\ pc = "FAILED" /\ outcome = "exception"
              /\ assets_records = <<>> /\ nattempts = 0 /\ writes = <<>>
        /\ (Len(netlog) >= 2 /\ replies[2] # "ok") =>
              /\ netlog = <<"auth", "read">> /\ replies[1] = "ok"
              /\ pc = "FAILED" /\ outcome = "exception"
              /\ nattempts = 0 /\ requested = <<>> /\ writes = <<>>
        /\ Len(netlog) >= 1 => netlog[1] = "auth"
        /\ Len(netlog) >= 2 => netlog[2] = "read"

\* The token answer carried a non-zero code and the run stopped there.
C12_Witness ==
    /\ mode = "main" /\ pc = "FAILED"
    /\ netlog = <<"auth">> /\ replies = <<"code">>

\* C13 (as claimed): a run that meets a fatal error (missing configuration,
\* authentication failure, record-read failure) ends with a non-zero exit
\* status, unlike a successful run.
C13_FatalExitsNonZero ==
    (mode = "main" /\ pc = "FAILED") => exit_code # 0

\* C14 (as claimed): in per-record mode every intent is submitted as its own
\* call, and a failed call does not stop the later ones: a finished run has
\* made one write call per intent, each carrying that one intent.
C14_OneCallPerIntent ==
    (mode = "main" /\ Terminal /\ writes # <<>>) =>
        /\ Len(writes) = Len(feishu_payload)
        /\ \A i \in 1 .. Len(writes) : writes[i] = <<feishu_payload[i]>>

\* C15: a run with a non-empty intent sequence submits all intents, in their
\* order, in exactly one bulk call; when the store answers with a status other
\* than 200 or a non-zero code the run reports no record as updated and makes
\* no further write call.
C15_OneBulkCallAllOrNothing ==
    mode = "main" =>
        /\ Len(writes) <= 1
        /\ writes # <<>> =>
              /\ ReconcileFinished
              /\ feishu_payload # <<>> /\ writes = <<feishu_payload>>
              /\ netlog[Len(netlog)] = "write"
              /\ Cardinality({i \in 1 .. Len(netlog) : netlog[i] = "write"}) = 1
              /\ replies[Len(replies)] # "ok" => pc = "FAILED" /\ outcome = "exception"
              /\ replies[Len(replies)] = "ok" => pc = "DONE" /\ outcome = "updated"
        /\ (Terminal /\ ReconcileFinished /\ feishu_payload # <<>>) => Len(writes) = 1
        /\ outcome = "updated" => writes # <<>> /\ replies[Len(replies)] = "ok"

\* Two intents went out in one call, the store answered 200 with a non-zero
\* code, and the run ended without reporting an update.
C15_Witness ==
    /\ mode = "main" /\ pc = "FAILED"
    /\ Len(writes) = 1 /\ Len(writes[1]) = 2
    /\ replies[Len(replies)] = "code"
    /\ outcome = "exception"

\* C16 (as claimed): a write failure reported by the store never aborts the
\* run; only a fault detected before any write does.
C16_OnlyFaultsBeforeWriteAbort ==
    (mode = "main" /\ pc = "FAILED") => writes = <<>>

\* C17: every run of main reaches a terminal state; on the way the retry loop
\* makes at most 3 passes and no step of the pipeline is entered twice.
C17_EveryRunTerminates ==
    /\ <>Terminal
    /\ [](nattempts <= MaxAttempts /\ attempt < MaxAttempts)
    /\ [](IsPrefix(phases, Pipeline))
    /\ [][Terminal => FALSE]_vars

\* A run that used all three download attempts and still ended.
C17_Witness ==
    /\ mode = "main" /\ Terminal
    /\ nattempts = MaxAttempts /\ ndelays = MaxAttempts - 1
    /\ phases = <<"EXTRACT", "FETCH", "RECONCILE">>

NoDuplicates(seq) == \A i, j \in 1 .. Len(seq) : seq[i] = seq[j] => i = j

\* C18: every download attempt is one request whose symbol list holds each
\* distinct input symbol exactly once, however often the input repeats it; an
\* empty input makes no request and returns the empty mapping.
C18_RequestsAreDeduplicated ==
    mode = "fetch" =>
        /\ Len(requested) = nattempts
        /\ \A i \in 1 .. Len(requested) :
              /\ NoDuplicates(requested[i])
              /\ Range(requested[i]) = Range(symbols_to_fetch)
        /\ symbols_to_fetch = <<>> =>
              /\ requested = <<>> /\ netlog = <<>>
              /\ pc \in {"FETCH", "RETURNED"}
              /\ Returned => DOMAIN price_data = {}

\* The input named one symbol more than once and a request was made.
C18_Witness ==
    /\ Returned
    /\ Len(symbols_to_fetch) > Cardinality(Range(symbols_to_fetch))
    /\ Len(requested) >= 1
    /\ Len(requested[1]) = Cardinality(Range(symbols_to_fetch))

\* C19: every element of the payload of a write call names a record that was
\* read in this run, no record twice, and carries exactly one field, the price
\* field, holding the quote of that record's symbol.
C19_WritesOnlyPriceOfReadRecords ==
    mode = "main" =>
        \A w \in 1 .. Len(writes) :
            /\ \A j, k \in 1 .. Len(writes[w]) :
                  writes[w][j].record_id = writes[w][k].record_id => j = k
            /\ \A j \in 1 .. Len(writes[w]) :
                  /\ DOMAIN writes[w][j] = {"record_id", "fields"}
                  /\ DOMAIN writes[w][j].fields = {"fldbbaX8bo"}
                  /\ \E i \in 1 .. Len(assets_records) :
                        /\ assets_records[i].record_id = writes[w][j].record_id
                        /\ SymbolAt(i).tag = "str"
                        /\ SymbolAt(i).s \in DOMAIN price_data
                        /\ writes[w][j].fields.fldbbaX8bo = price_data[SymbolAt(i).s]

\* A write call carried two records with two different quotes.
C19_Witness ==
    /\ mode = "main" /\ Len(writes) = 1 /\ Len(writes[1]) = 2
    /\ writes[1][1].fields # writes[1][2].fields

\* The symbols the first loop of main gives, by position in assets_records.
ExtractedAt(i) == get_symbol_string(assets_records[i].code)

\* C20: the symbol list main hands to fetch_yfinance_price never holds None or
\* the empty string, the download is requested only for a non-empty list, and
\* the payload loop looks a record's quote up under the symbol extracted for
\* that record before the fetch.
C20_FetchedSymbolsAreUsable ==
    mode = "main" =>
        /\ \A k \in 1 .. Len(symbols_to_fetch) : symbols_to_fetch[k] # <<>>
        /\ (pc = "FETCH" \/ nattempts > 0 \/ requested # <<>>) => symbols_to_fetch # <<>>
        /\ \A i \in 1 .. Len(requested) : requested[i] # <<>> /\ <<>> \notin Range(requested[i])
        /\ <<>> \notin DOMAIN price_data
        /\ \A j \in 1 .. Len(feishu_payload) :
              \E i \in 1 .. Len(assets_records) :
                 /\ assets_records[i].record_id = feishu_payload[j].record_id
                 /\ ExtractedAt(i).s \in Range(symbols_to_fetch)
                 /\ feishu_payload[j].fields.fldbbaX8bo = price_data[ExtractedAt(i).s]

\* A whitespace-only record was left out of the list and the other record's
\* symbol was fetched and used.
C20_Witness ==
    /\ mode = "main" /\ ReconcileFinished
    /\ Len(assets_records) = 2 /\ Len(symbols_to_fetch) = 1
    /\ \E i \in 1 .. 2 : ExtractedAt(i) = Str(<<>>)
    /\ Len(feishu_payload) = 1

====
